---- MODULE Spec2Model ----
(***************************************************************************)
(* Model of the container demuxers of prism-media:                         *)
(*   - OggDemuxer       (src/src/opus/OggDemuxer.ts)                       *)
(*   - WebmBaseDemuxer  (src/src/opus/Opus.ts, lines 200-461) with the     *)
(*     Opus and Vorbis head hooks                                          *)
(* and of two of its collaborators:                                        *)
(*   - VolumeTransformer  (src/src/core/VolumeTransformer.ts)              *)
(*   - FFmpeg.getInfo     (src/src/core/FFmpeg.ts, lines 170-201)          *)
(* A byte is an integer 0..255, a Buffer is a sequence of bytes.  A value  *)
(* that may be `undefined` in the source is a sequence of length 0 (None)  *)
(* or 1 (Some(v)).                                                         *)
(***************************************************************************)
EXTENDS Integers, Sequences, FiniteSets, TLC

VARIABLES
    oggPlan,    \* the pages of the byte stream written to the OggDemuxer (indices of OggPageLib)
    oggInput,   \* the byte stream itself
    oggFed,     \* number of its bytes already handed to _transform
    oggBytewise,\* TRUE while every _transform call so far delivered exactly one byte
    ogg,        \* the OggDemuxer instance: _remainder, _head, _bitstream
    oggLog,     \* what the demuxer did, in order: push / emit('head'|'tags'|'unknownSegment') / silent drop
    oggErr,     \* the error thrown by _transform, "none" while there is none
    oggPhase,   \* "open", "final" (after _final), "destroyed" (after _destroy)
    webmPlan,   \* the elements of the byte stream written to the WebmDemuxer (indices of WebmLib)
    webmInput,  \* the byte stream itself
    webmFed,    \* number of its bytes already handed to _transform
    webmBytewise, \* TRUE while every _transform call so far delivered exactly one byte
    webmVariant,\* which _checkHead the instance has: "base", "opus" or "vorbis"
    webm,       \* the instance: _remainder, _length, _count, _skipUntil, _track, _incompleteTrack, _ebmlFound
    webmOut,    \* the packets pushed, in order
    webmTrace,  \* one entry per element _readTag processed, in order
    webmErr,    \* the error thrown by _transform, "none" while there is none
    webmPhase,  \* "open", "final", "destroyed"
    probe,      \* a single operation applied to one input: [fn, input, done, out]
    volInput,   \* the PCM byte stream written to the VolumeTransformer
    volFed,     \* number of its bytes already handed to _transform
    vol,        \* the VolumeTransformer instance: type, volume, chunk
    volOut,     \* the buffers pushed, in order
    volPhase    \* "open" or "destroyed"

oggVars == <<oggPlan, oggInput, oggFed, oggBytewise, ogg, oggLog, oggErr, oggPhase>>
webmVars == <<webmPlan, webmInput, webmFed, webmBytewise, webmVariant, webm, webmOut,
              webmTrace, webmErr, webmPhase>>
volVars == <<volInput, volFed, vol, volOut, volPhase>>
vars == <<oggVars, webmVars, probe, volVars>>

----------------------------------------------------------------------------
(* Bounds of the model *)

\* pages per generated Ogg stream
MaxPages == 2
\* packets the readable side buffers before push reports no capacity
MaxBuffered == 1
\* largest size of a partial chunk (a call may also deliver all remaining bytes)
MaxChunk == 3

----------------------------------------------------------------------------
(* Buffers *)

None == <<>>
Some(v) == <<v>>

Min(a, b) == IF a < b THEN a ELSE b
Max(a, b) == IF a > b THEN a ELSE b

\* Buffer.prototype.slice(start, end): a negative index counts from the end, and
\* both ends are clamped to the buffer
SliceIndex(buf, i) == IF i < 0 THEN Max(Len(buf) + i, 0) ELSE Min(i, Len(buf))
Slice(buf, start, end) ==
    LET s == SliceIndex(buf, start)
        e == SliceIndex(buf, end)
    IN  IF e <= s THEN <<>> ELSE SubSeq(buf, s + 1, e)

\* buf.slice(start)
SliceFrom(buf, start) == Slice(buf, start, Len(buf))

\* buf.readUInt8(i)
ReadUInt8(buf, i) == buf[i + 1]

\* buf.readUInt32BE(i)
ReadUInt32BE(buf, i) ==
    ((buf[i + 1] * 256 + buf[i + 2]) * 256 + buf[i + 3]) * 256 + buf[i + 4]

Zeros(n) == [i \in 1..n |-> 0]
Fill(n, b) == [i \in 1..n |-> b]

IsPrefix(p, s) == Len(p) <= Len(s) /\ SubSeq(s, 1, Len(p)) = p

RECURSIVE Flatten(_)
Flatten(ss) == IF ss = <<>> THEN <<>> ELSE Head(ss) \o Flatten(Tail(ss))

RECURSIVE SumSeq(_)
SumSeq(s) == IF s = <<>> THEN 0 ELSE Head(s) + SumSeq(Tail(s))

\* all sequences over S of length lo..hi
SeqsBetween(S, lo, hi) == UNION {[1..n -> S] : n \in lo..hi}

----------------------------------------------------------------------------
(* OggDemuxer: constants *)

OGG_PAGE_HEADER_SIZE == 26
STREAM_STRUCTURE_VERSION == 0
\* 'OggS'
OGGS_HEADER == <<79, 103, 103, 83>>
\* 'OpusHead'
OPUS_HEAD == <<79, 112, 117, 115, 72, 101, 97, 100>>
\* 'OpusTag' (seven bytes, as OggDemuxer.ts writes it)
OPUS_TAGS == <<79, 112, 117, 115, 84, 97, 103>>
\* 'OpusTags', the comment signature (as Opus.ts writes it)
OPUS_TAGS_SIGNATURE == <<79, 112, 117, 115, 84, 97, 103, 115>>

----------------------------------------------------------------------------
(* OggDemuxer._readPage *)

\* a faulty variant that waits for 40 bytes before it looks at the header
HeaderTooShortMut(chunk) == Len(chunk) < 40
\* lines 49-51: not even the fixed header is buffered
HeaderTooShort(chunk) == Len(chunk) < OGG_PAGE_HEADER_SIZE

\* lines 52-57: the checks that throw; "none" when the page passes
HeaderError(chunk) ==
    IF Slice(chunk, 0, 4) # OGGS_HEADER THEN "capture_pattern"
    ELSE IF ReadUInt8(chunk, 4) # STREAM_STRUCTURE_VERSION THEN "stream_structure_version"
    ELSE "none"

\* lines 69-84: the lacing loops.  i is the 0-based table index.  The result is
\* [ok |-> FALSE] where the source returns false, else the reconstructed sizes.
RECURSIVE LaceOuter(_, _, _), LaceInner(_, _, _, _)
LaceOuter(table, i, sizes) ==
    IF i < Len(table) THEN LaceInner(table, i, 0, sizes)
    ELSE [ok |-> TRUE, sizes |-> sizes]
LaceInner(table, i, size, sizes) ==
    IF i >= Len(table) THEN [ok |-> FALSE, sizes |-> <<>>]
    ELSE LET x == ReadUInt8(table, i)
         IN  IF x = 255 THEN LaceInner(table, i + 1, size + x, sizes)
             ELSE LaceOuter(table, i + 1, Append(sizes, size + x))

\* a faulty variant that takes every table byte as one segment
LaceSizesMut(table) == [ok |-> TRUE, sizes |-> table]
\* lines 69-84, entered with i = 0 and no sizes
LaceSizes(table) == LaceOuter(table, 0, <<>>)

\* one entry of oggLog
OggEntry(type, segment, bitstream) ==
    [type |-> type, data |-> segment, bitstream |-> bitstream]

\* line 95: header.equals(OPUS_TAGS)
IsTagsHeader(header) == header = OPUS_TAGS

\* a faulty variant that accepts the page of any bitstream
SameBitstreamMut(pinned, bitstream) == TRUE
\* line 97: this._bitstream === bitstream
SameBitstream(pinned, bitstream) == pinned = Some(bitstream)

\* a faulty variant that records every segment with the head signature as the head
OggSegmentMut(st, segment, bitstream) ==
    IF Slice(segment, 0, 8) = OPUS_HEAD
    THEN [head |-> Some(segment), bitstream |-> Some(bitstream),
          log |-> Append(st.log, OggEntry("head", segment, bitstream))]
    ELSE IF st.head = None
    THEN [st EXCEPT !.log = Append(@, OggEntry("unknownSegment", segment, bitstream))]
    ELSE IF IsTagsHeader(Slice(segment, 0, 8))
    THEN [st EXCEPT !.log = Append(@, OggEntry("tags", segment, bitstream))]
    ELSE IF SameBitstream(st.bitstream, bitstream)
    THEN [st EXCEPT !.log = Append(@, OggEntry("push", segment, bitstream))]
    ELSE [st EXCEPT !.log = Append(@, OggEntry("drop", segment, bitstream))]
\* lines 92-106: one segment.  st = [head, bitstream, log]
OggSegment(st, segment, bitstream) ==
    LET header == Slice(segment, 0, 8)
    IN  IF st.head # None
        THEN IF IsTagsHeader(header)
             THEN [st EXCEPT !.log = Append(@, OggEntry("tags", segment, bitstream))]
             ELSE IF SameBitstream(st.bitstream, bitstream)
             THEN [st EXCEPT !.log = Append(@, OggEntry("push", segment, bitstream))]
             ELSE [st EXCEPT !.log = Append(@, OggEntry("drop", segment, bitstream))]
        ELSE IF header = OPUS_HEAD
             THEN [head |-> Some(segment), bitstream |-> Some(bitstream),
                   log |-> Append(st.log, OggEntry("head", segment, bitstream))]
             ELSE [st EXCEPT !.log = Append(@, OggEntry("unknownSegment", segment, bitstream))]

\* lines 90-108: the loop over the reconstructed sizes
RECURSIVE OggSegments(_, _, _, _, _)
OggSegments(st, chunk, start, sizes, bitstream) ==
    IF sizes = <<>> THEN [st |-> st, start |-> start]
    ELSE OggSegments(OggSegment(st, Slice(chunk, start, start + Head(sizes)), bitstream),
                     chunk, start + Head(sizes), Tail(sizes), bitstream)

\* what _readPage returns.  kind is "false" (return false), "throw" or "page"
\* (a page was consumed, rest is chunk.slice(start))
PageFalse(st, chunk) == [kind |-> "false", err |-> "none", st |-> st, rest |-> chunk]
PageThrow(st, chunk, e) == [kind |-> "throw", err |-> e, st |-> st, rest |-> chunk]
PageDone(chunk, done) ==
    [kind |-> "page", err |-> "none", st |-> done.st, rest |-> SliceFrom(chunk, done.start)]

\* a faulty variant without the payload length check of lines 86-88
ReadPagePayloadMut(st, chunk, pageSegments, bitstream, laced) ==
    IF ~laced.ok THEN PageFalse(st, chunk)
    ELSE PageDone(chunk, OggSegments(st, chunk, 27 + pageSegments, laced.sizes, bitstream))
\* lines 86-109: the payload check and the segments, given the lacing result
ReadPagePayload(st, chunk, pageSegments, bitstream, laced) ==
    IF ~laced.ok THEN PageFalse(st, chunk)
    ELSE IF Len(chunk) < 27 + pageSegments + SumSeq(laced.sizes) THEN PageFalse(st, chunk)
    ELSE PageDone(chunk, OggSegments(st, chunk, 27 + pageSegments, laced.sizes, bitstream))

\* a faulty variant that waits for more bytes when the page has no segment
ReadPageTableMut(st, chunk, pageSegments) ==
    IF pageSegments = 0 \/ Len(chunk) < 27 + pageSegments THEN PageFalse(st, chunk)
    ELSE ReadPagePayload(st, chunk, pageSegments, ReadUInt32BE(chunk, 14),
                         LaceSizes(Slice(chunk, 27, 27 + pageSegments)))
\* lines 63-84: the table, given the segment count
ReadPageTable(st, chunk, pageSegments) ==
    IF Len(chunk) < 27 + pageSegments THEN PageFalse(st, chunk)
    ELSE ReadPagePayload(st, chunk, pageSegments, ReadUInt32BE(chunk, 14),
                         LaceSizes(Slice(chunk, 27, 27 + pageSegments)))

\* lines 48-110
ReadPage(st, chunk) ==
    IF HeaderTooShort(chunk) THEN PageFalse(st, chunk)
    ELSE IF HeaderError(chunk) # "none" THEN PageThrow(st, chunk, HeaderError(chunk))
    ELSE IF Len(chunk) < 27 THEN PageFalse(st, chunk)
    ELSE ReadPageTable(st, chunk, ReadUInt8(chunk, 26))

----------------------------------------------------------------------------
(* OggDemuxer._transform *)

\* lines 31-38: read pages until _readPage returns false or throws
RECURSIVE OggPages(_, _)
OggPagesStep(chunk, r) ==
    IF r.kind = "page" THEN OggPages(r.st, r.rest)
    ELSE IF r.kind = "throw" THEN [st |-> r.st, remainder |-> None, err |-> r.err]
    ELSE [st |-> r.st, remainder |-> Some(chunk), err |-> "none"]
OggPages(st, chunk) == OggPagesStep(chunk, ReadPage(st, chunk))

\* a faulty variant that forgets the remainder
OggConcatMut(d, chunk) == chunk
\* lines 26-29: the chunk with the remainder in front of it
OggConcat(d, chunk) == IF d._remainder # None THEN d._remainder[1] \o chunk ELSE chunk

\* the instance, the log and the error after the call, from what the loop left
OggAfter(r) ==
    [d |-> [_remainder |-> r.remainder, _head |-> r.st.head, _bitstream |-> r.st.bitstream],
     log |-> r.st.log, err |-> r.err]

\* lines 25-40: d is the instance, log the log so far
OggTransformCall(d, log, chunk) ==
    OggAfter(OggPages([head |-> d._head, bitstream |-> d._bitstream, log |-> log],
                      OggConcat(d, chunk)))

\* lines 125-129
OggCleanup(d) == [_remainder |-> None, _head |-> None, _bitstream |-> None]

\* the instance after construction (lines 14-23)
OggNew == [_remainder |-> None, _head |-> None, _bitstream |-> None]

----------------------------------------------------------------------------
(* Ogg byte streams written to the demuxer *)

\* a page in the wire layout _readPage reads: capture pattern at 0, version at 4,
\* bitstream serial at 14, segment count at 26, table at 27, then the payload
MkPage(capture, version, serial, table, payload) ==
    capture \o <<version, 0>> \o Zeros(8) \o <<0, 0, 0, serial>> \o Zeros(8)
        \o <<Len(table)>> \o table \o payload

OggPageLib == <<
    \* 1: head packet of bitstream 1
    MkPage(OGGS_HEADER, 0, 1, <<9>>, OPUS_HEAD \o <<1>>),
    \* 2: comment packet 'OpusTags' + one byte, bitstream 1
    MkPage(OGGS_HEADER, 0, 1, <<9>>, OPUS_TAGS_SIGNATURE \o <<0>>),
    \* 3: the seven bytes 'OpusTag' alone, bitstream 2
    MkPage(OGGS_HEADER, 0, 2, <<7>>, OPUS_TAGS),
    \* 4: three audio segments of lengths 2, 0, 1, bitstream 1
    MkPage(OGGS_HEADER, 0, 1, <<2, 0, 1>>, <<10, 11, 12>>),
    \* 5: one audio segment, bitstream 2
    MkPage(OGGS_HEADER, 0, 2, <<1>>, <<20>>),
    \* 6: head packet of bitstream 2
    MkPage(OGGS_HEADER, 0, 2, <<8>>, OPUS_HEAD),
    \* 7: a page with no segment
    MkPage(OGGS_HEADER, 0, 1, <<>>, <<>>),
    \* 8: first byte of the capture pattern corrupted
    MkPage(<<88, 103, 103, 83>>, 0, 1, <<1>>, <<30>>),
    \* 9: structure version 1
    MkPage(OGGS_HEADER, 1, 1, <<1>>, <<31>>),
    \* 10: one 257-byte packet laced as 255 + 2
    MkPage(OGGS_HEADER, 0, 1, <<255, 2>>, Fill(257, 7)),
    \* 11: a 255-byte segment continued on the next page (table ends with 255)
    MkPage(OGGS_HEADER, 0, 1, <<255>>, Fill(255, 8))
>>

\* the pages with a short payload, combined freely
SmallPages == 1..9

\* streams with the long pages
LongPlans == {<<11>>, <<1, 10>>, <<1, 11, 4>>, <<10, 1, 4>>, <<1, 5, 4>>, <<1, 3, 4>>,
              <<1, 2, 4>>, <<1, 6, 5>>, <<5, 1, 6>>, <<1, 7, 4>>}

OggPlans == SeqsBetween(SmallPages, 1, MaxPages) \cup LongPlans

PlanBytes(plan) == Flatten([i \in 1..Len(plan) |-> OggPageLib[plan[i]]])

\* sizes of the chunk a call may deliver when `left` bytes remain
ChunkSizes(left) == {n \in 1..MaxChunk : n <= left} \cup {left}

----------------------------------------------------------------------------
(* WebmBaseDemuxer: constants *)

\* element IDs, as bytes (the source compares their hex strings, which are in
\* one-to-one correspondence with the byte sequences)
\* 1a45dfa3
ID_EBML == <<26, 69, 223, 163>>
\* 18538067
ID_SEGMENT == <<24, 83, 128, 103>>
\* 1f43b675
ID_CLUSTER == <<31, 67, 182, 117>>
\* 1654ae6b
ID_TRACKS == <<22, 84, 174, 107>>
\* ae
ID_TRACK_ENTRY == <<174>>
\* d7
ID_TRACK_NUMBER == <<215>>
\* 83
ID_TRACK_TYPE == <<131>>
\* a3
ID_SIMPLE_BLOCK == <<163>>
\* 63a2
ID_CODEC_PRIVATE == <<99, 162>>

\* WebmBaseDemuxer.TAGS: the known IDs
TagIds == {ID_EBML, ID_SEGMENT, ID_CLUSTER, ID_TRACKS, ID_TRACK_ENTRY,
           ID_TRACK_NUMBER, ID_TRACK_TYPE, ID_SIMPLE_BLOCK, ID_CODEC_PRIVATE}
\* WebmBaseDemuxer.TAGS[id]: whether the element has children
TagHasChildren(id) == id \in {ID_EBML, ID_SEGMENT, ID_CLUSTER, ID_TRACKS, ID_TRACK_ENTRY}

\* 'vorbis'
VORBIS_HEAD == <<118, 111, 114, 98, 105, 115>>

\* a number, or the TOO_SHORT symbol
TOO_SHORT == [short |-> TRUE, v |-> 0]
Num(n) == [short |-> FALSE, v |-> n]

----------------------------------------------------------------------------
(* vintLength, expandVint *)

Pow2(k) == 2 ^ k

\* (1 << k) & b, as a truth value
BitSet(b, k) == (b \div Pow2(k)) % 2 = 1

\* buffer[index], with undefined read as 0 under the bitwise operators
ByteOrZero(buffer, index) ==
    IF index >= 0 /\ index < Len(buffer) THEN buffer[index + 1] ELSE 0

\* lines 433-437: the value of i when the loop ends
RECURSIVE VintScan(_, _)
VintScan(b, i) == IF i < 8 /\ ~BitSet(b, 7 - i) THEN VintScan(b, i + 1) ELSE i

\* lines 430-444
VintLength(buffer, index) ==
    LET i == VintScan(ByteOrZero(buffer, index), 0) + 1
    IN  IF index + i > Len(buffer) THEN TOO_SHORT ELSE Num(i)

\* v << 8 on a 32-bit signed integer
Shl8(v) ==
    LET low == v % 16777216
    IN  IF low >= 8388608 THEN (low - 16777216) * 256 ELSE low * 256

\* lines 456-458
RECURSIVE VintBytes(_, _, _, _)
VintBytes(buffer, i, end, value) ==
    IF i < end THEN VintBytes(buffer, i + 1, end, Shl8(value) + buffer[i + 1]) ELSE value

\* lines 446-461.  buffer[start] & ((1 << (8 - length)) - 1) keeps the low
\* 8 - length bits (all of them for length 9, where the byte is 0)
ExpandVint(buffer, start, end) ==
    LET length == VintLength(buffer, start)
    IN  IF end > Len(buffer) \/ length.short THEN TOO_SHORT
        ELSE LET first == IF length.v <= 8 THEN buffer[start + 1] % Pow2(8 - length.v)
                          ELSE buffer[start + 1]
             IN  Num(VintBytes(buffer, start + 1, end, first))

----------------------------------------------------------------------------
(* WebmBaseDemuxer._readTag and its helpers *)

\* lines 297-309
ReadEBMLId(chunk, offset) ==
    LET idLength == VintLength(chunk, offset)
    IN  IF idLength.short THEN [short |-> TRUE, id |-> <<>>, offset |-> offset]
        ELSE [short |-> FALSE, id |-> Slice(chunk, offset, offset + idLength.v),
              offset |-> offset + idLength.v]

\* lines 318-331
ReadTagDataSize(chunk, offset) ==
    LET sizeLength == VintLength(chunk, offset)
    IN  IF sizeLength.short THEN [short |-> TRUE, offset |-> offset, dataLength |-> 0]
        ELSE LET dataLength == ExpandVint(chunk, offset, offset + sizeLength.v)
             IN  IF dataLength.short
                 THEN [short |-> TRUE, offset |-> offset, dataLength |-> 0]
                 ELSE [short |-> FALSE, offset |-> offset + sizeLength.v,
                       dataLength |-> dataLength.v]

\* data[0]: undefined on an empty buffer
FirstByte(data) == IF Len(data) > 0 THEN Some(data[1]) ELSE None

NoTrack == [number |-> None, type |-> None]

\* a faulty variant that compares four bytes only
CheckHeadOpusMut(data, out) ==
    IF Slice(data, 0, 4) # Slice(OPUS_HEAD, 0, 4)
    THEN [err |-> "Audio codec is not Opus!", out |-> out]
    ELSE [err |-> "none", out |-> out]
\* the Opus WebmDemuxer._checkHead (src/unnamed/part_000, lines 15-19)
CheckHeadOpus(data, out) ==
    IF Slice(data, 0, 8) # OPUS_HEAD
    THEN [err |-> "Audio codec is not Opus!", out |-> out]
    ELSE [err |-> "none", out |-> out]

\* the Vorbis WebmDemuxer._checkHead (src/examples/oggopus-demuxer.ts, lines 19-27);
\* readUInt8(0) of an empty buffer throws a RangeError
CheckHeadVorbis(data, out) ==
    IF Len(data) = 0 THEN [err |-> "ERR_OUT_OF_RANGE", out |-> out]
    ELSE IF ReadUInt8(data, 0) # 2 \/ Slice(data, 4, 10) # VORBIS_HEAD
    THEN [err |-> "Audio codec is not Vorbis!", out |-> out]
    ELSE LET l1 == ReadUInt8(data, 1)
             l2 == ReadUInt8(data, 2)
         IN  [err |-> "none",
              out |-> out \o <<Slice(data, 3, 3 + l1),
                               Slice(data, 3 + l1, 3 + l1 + l2),
                               SliceFrom(data, 3 + l1 + l2)>>]

\* this._checkHead(data) of the instance's class (Opus.ts lines 407-409 for the base)
CheckHead(variant, data, out) ==
    IF variant = "opus" THEN CheckHeadOpus(data, out)
    ELSE IF variant = "vorbis" THEN CheckHeadVorbis(data, out)
    ELSE [err |-> "Method not implemented.", out |-> out]

\* a faulty variant without the guard of line 379
TrackFieldsMut(t, id, data) ==
    LET i1 == IF id = ID_TRACK_ENTRY THEN NoTrack ELSE t.incomplete
        i2 == IF id = ID_TRACK_NUMBER THEN [i1 EXCEPT !.number = FirstByte(data)] ELSE i1
        i3 == IF id = ID_TRACK_TYPE THEN [i2 EXCEPT !.type = FirstByte(data)] ELSE i2
    IN  IF i3.type = Some(2) /\ i3.number # None
        THEN [track |-> Some(i3), incomplete |-> i3]
        ELSE [track |-> t.track, incomplete |-> i3]
\* lines 379-392: the track descriptor.  t = [track, incomplete]
TrackFields(t, id, data) ==
    IF t.track # None THEN t
    ELSE LET i1 == IF id = ID_TRACK_ENTRY THEN NoTrack ELSE t.incomplete
             i2 == IF id = ID_TRACK_NUMBER THEN [i1 EXCEPT !.number = FirstByte(data)] ELSE i1
             i3 == IF id = ID_TRACK_TYPE THEN [i2 EXCEPT !.type = FirstByte(data)] ELSE i2
         IN  IF i3.type = Some(2) /\ i3.number # None
             THEN [track |-> Some(i3), incomplete |-> i3]
             ELSE [track |-> None, incomplete |-> i3]

\* a faulty variant that compares the whole first byte
BlockOfTrackMut(data, track) == Some(ByteOrZero(data, 0)) = track.number
\* line 399: (data[0] & 0xf) === this._track.number
BlockOfTrack(data, track) == Some(ByteOrZero(data, 0) % 16) = track.number

\* a faulty variant that drops the block silently while no track is resolved
SimpleBlockMut(track, data, out) ==
    IF track # None /\ BlockOfTrack(data, track[1])
    THEN [err |-> "none", out |-> Append(out, SliceFrom(data, 4))]
    ELSE [err |-> "none", out |-> out]
\* lines 395-402: a complete simple block.  The result is the error thrown
\* ("none" when there is none) and the packets pushed so far
SimpleBlock(track, data, out) ==
    IF track = None THEN [err |-> "No audio track in this webm!", out |-> out]
    ELSE IF BlockOfTrack(data, track[1])
    THEN [err |-> "none", out |-> Append(out, SliceFrom(data, 4))]
    ELSE [err |-> "none", out |-> out]

\* a faulty variant that accepts any first element
RootCheckMut(ebmlFound, id) == "none"
\* lines 348-354: the root check.  The result is "none" or the error thrown
RootCheck(ebmlFound, id) ==
    IF ~ebmlFound /\ id # ID_EBML
    THEN "Did not find the EBML tag at the start of the stream"
    ELSE "none"

\* one entry of webmTrace: the element at absolute offset `at`, what _readTag
\* did with it, this._track before and after it, and the number of packets
\* pushed so far
TraceEntry(id, at, act, data, before, s) ==
    [id |-> id, at |-> at, act |-> act, data0 |-> FirstByte(data),
     before |-> before, after |-> s.w._track, nOut |-> Len(s.out)]

\* what _readTag returns.  kind is "TOO_SHORT", "throw" or "tag"; skipUntil is
\* None when the returned Tag has no _skipUntil.  s = [w, out, trace]: the
\* instance, the packets pushed and the trace
TagShort(s, offset) ==
    [kind |-> "TOO_SHORT", err |-> "none", s |-> s, offset |-> offset, skipUntil |-> None]
TagThrow(s, offset, e) ==
    [kind |-> "throw", err |-> e, s |-> s, offset |-> offset, skipUntil |-> None]
TagOk(s, offset, skipUntil) ==
    [kind |-> "tag", err |-> "none", s |-> s, offset |-> offset, skipUntil |-> skipUntil]

Traced(s, id, at, act, data, before) ==
    [s EXCEPT !.trace = Append(@, TraceEntry(id, at, act, data, before, s))]

\* the return of a leaf whose handler left the packets `h.out` and the error `h.err`
LeafResult(s, offset, at, ebmlID, data, end, before, h, act) ==
    IF h.err # "none"
    THEN TagThrow(Traced([s EXCEPT !.out = h.out], ebmlID, at, "throw", data, before),
                  offset, h.err)
    ELSE TagOk(Traced([s EXCEPT !.out = h.out], ebmlID, at, act, data, before), end, None)

\* "push" when the handler of a simple block pushed a packet, else "drop"
BlockAct(s, h) == IF Len(h.out) > Len(s.out) THEN "push" ELSE "drop"

\* lines 393-403: the dispatch of a complete leaf.  `before` is this._track
\* before lines 379-392, s holds it after them; end is offset + dataLength
ReadTagDispatch(variant, s, offset, at, ebmlID, data, end, before) ==
    IF ebmlID = ID_CODEC_PRIVATE
    THEN LeafResult(s, offset, at, ebmlID, data, end, before,
                    CheckHead(variant, data, s.out), "head")
    ELSE IF ebmlID = ID_SIMPLE_BLOCK
    THEN LeafResult(s, offset, at, ebmlID, data, end, before,
                    SimpleBlock(s.w._track, data, s.out),
                    BlockAct(s, SimpleBlock(s.w._track, data, s.out)))
    ELSE TagOk(Traced(s, ebmlID, at, "leaf", data, before), end, None)

\* lines 378-392: a complete leaf, its data sliced out and the track descriptor updated
WithTrack(s, t) == [s EXCEPT !.w._track = t.track, !.w._incompleteTrack = t.incomplete]
ReadTagLeaf(variant, s, offset, at, ebmlID, data, end) ==
    ReadTagDispatch(variant,
                    WithTrack(s, TrackFields([track |-> s.w._track,
                                              incomplete |-> s.w._incompleteTrack],
                                             ebmlID, data)),
                    offset, at, ebmlID, data, end, s.w._track)

\* lines 356-377: after the ID.  off is the offset after the size field
ReadTagBody(variant, s, chunk, offset, at, ebmlID, sizeData) ==
    IF sizeData.short THEN TagShort(s, offset)
    ELSE IF ebmlID \notin TagIds
    THEN IF Len(chunk) > sizeData.offset + sizeData.dataLength
         THEN TagOk(Traced(s, ebmlID, at, "skip", <<>>, s.w._track),
                    sizeData.offset + sizeData.dataLength, None)
         ELSE TagOk(Traced(s, ebmlID, at, "skipUntil", <<>>, s.w._track),
                    sizeData.offset,
                    Some(s.w._count + sizeData.offset + sizeData.dataLength))
    ELSE IF TagHasChildren(ebmlID)
    THEN TagOk(Traced(s, ebmlID, at, "enter", <<>>, s.w._track),
               sizeData.offset, None)
    ELSE IF sizeData.offset + sizeData.dataLength > Len(chunk) THEN TagShort(s, offset)
    ELSE ReadTagLeaf(variant, s, offset, at, ebmlID,
                     Slice(chunk, sizeData.offset, sizeData.offset + sizeData.dataLength),
                     sizeData.offset + sizeData.dataLength)

\* lines 343-355: the ID and the root check
ReadTagId(variant, s, chunk, offset, idData) ==
    IF idData.short THEN TagShort(s, offset)
    ELSE IF RootCheck(s.w._ebmlFound, idData.id) # "none"
    THEN TagThrow(s, offset, RootCheck(s.w._ebmlFound, idData.id))
    ELSE ReadTagBody(variant, [s EXCEPT !.w._ebmlFound = TRUE], chunk, offset,
                     s.w._count + offset, idData.id,
                     ReadTagDataSize(chunk, idData.offset))

\* lines 342-404
ReadTag(variant, s, chunk, offset) ==
    ReadTagId(variant, s, chunk, offset, ReadEBMLId(chunk, offset))

----------------------------------------------------------------------------
(* WebmBaseDemuxer._transform *)

\* a number that is set and not 0 (what `if (x)` tests)
Truthy(opt) == opt # None /\ opt # Some(0)

\* lines 285-287
WebmFinish(s, chunk, offset) ==
    [s EXCEPT !.w._count = @ + offset, !.w._remainder = Some(SliceFrom(chunk, offset))]

\* lines 269-284: the loop over _readTag, given what the call in it returned.
\* The result is [s, err]
RECURSIVE WebmTags(_, _, _, _)
WebmTagsStep(variant, chunk, offset, r) ==
    IF r.kind = "throw" THEN [s |-> r.s, err |-> r.err]
    ELSE IF r.kind = "TOO_SHORT"
    THEN [s |-> WebmFinish(r.s, chunk, offset), err |-> "none"]
    ELSE IF Truthy(r.skipUntil)
    THEN [s |-> WebmFinish([r.s EXCEPT !.w._skipUntil = r.skipUntil], chunk, offset),
          err |-> "none"]
    ELSE IF r.offset # 0 THEN WebmTags(variant, r.s, chunk, r.offset)
    ELSE [s |-> WebmFinish(r.s, chunk, offset), err |-> "none"]
WebmTags(variant, s, chunk, offset) ==
    WebmTagsStep(variant, chunk, offset, ReadTag(variant, s, chunk, offset))

\* a faulty variant that parses in every call
StillSkippingMut(w, length) == FALSE
\* lines 262-268: TRUE when the call only counts the chunk and returns
StillSkipping(w, length) == Truthy(w._skipUntil) /\ ~(length > w._skipUntil[1])

\* a faulty variant that forgets the remainder
WebmConcatMut(w, chunk) == chunk
\* lines 257-260: the chunk with the remainder in front of it
WebmConcat(w, chunk) == IF w._remainder # None THEN w._remainder[1] \o chunk ELSE chunk

\* lines 255-288, given this._length after line 256 and the chunk after lines
\* 257-260.  s = [w, out, trace]; the result is [s, err]
WebmTransformBody(variant, s, length, chunk) ==
    IF StillSkipping(s.w, length)
    THEN [s |-> [s EXCEPT !.w._length = length, !.w._remainder = None,
                          !.w._count = @ + Len(chunk)],
          err |-> "none"]
    ELSE IF Truthy(s.w._skipUntil)
    THEN WebmTags(variant,
                  [s EXCEPT !.w._length = length, !.w._remainder = None,
                            !.w._skipUntil = None],
                  chunk, s.w._skipUntil[1] - s.w._count)
    ELSE WebmTags(variant, [s EXCEPT !.w._length = length, !.w._remainder = None], chunk, 0)

\* lines 255-288
WebmTransformCall(variant, s, chunk0) ==
    WebmTransformBody(variant, s, s.w._length + Len(chunk0), WebmConcat(s.w, chunk0))

\* lines 424-427
WebmCleanup(w) == [w EXCEPT !._remainder = None, !._incompleteTrack = NoTrack]

\* the instance after construction (lines 239-253)
WebmNew == [_remainder |-> None, _length |-> 0, _count |-> 0, _skipUntil |-> None,
            _track |-> None, _incompleteTrack |-> NoTrack, _ebmlFound |-> FALSE]

----------------------------------------------------------------------------
(* WebM byte streams written to the demuxer *)

\* Each stream is a sequence of library elements; each library element is a
\* sequence of atoms: the header (ID and size) of a container, or a whole leaf
\* or unknown element (ID, size and body).
Atom(kind, bytes) == [kind |-> kind, bytes |-> bytes]

WebmLib == <<
    \* 1: EBML root header, with an unknown child (EBMLVersion, 4286)
    <<Atom("root", ID_EBML \o <<132>>), Atom("unknown", <<66, 134, 129, 1>>)>>,
    \* 2: a track entry, number 1, type 1 (video)
    <<Atom("container", ID_TRACK_ENTRY \o <<134>>),
      Atom("leaf", ID_TRACK_NUMBER \o <<129, 1>>), Atom("leaf", ID_TRACK_TYPE \o <<129, 1>>)>>,
    \* 3: a track entry, number 2, type 2 (audio), number first
    <<Atom("container", ID_TRACK_ENTRY \o <<134>>),
      Atom("leaf", ID_TRACK_NUMBER \o <<129, 2>>), Atom("leaf", ID_TRACK_TYPE \o <<129, 2>>)>>,
    \* 4: a track entry, number 2, type 2 (audio), type first
    <<Atom("container", ID_TRACK_ENTRY \o <<134>>),
      Atom("leaf", ID_TRACK_TYPE \o <<129, 2>>), Atom("leaf", ID_TRACK_NUMBER \o <<129, 2>>)>>,
    \* 5: a simple block of track 1, payload aa
    <<Atom("leaf", ID_SIMPLE_BLOCK \o <<133, 129, 0, 0, 128, 170>>)>>,
    \* 6: a simple block of track 2, payload bb cc
    <<Atom("leaf", ID_SIMPLE_BLOCK \o <<134, 130, 0, 0, 128, 187, 204>>)>>,
    \* 7: an unknown element (Void, ec) whose 6-byte body reads like a simple block
    <<Atom("unknown", <<236, 134>> \o ID_SIMPLE_BLOCK \o <<132, 130, 0, 0, 128>>)>>,
    \* 8: Segment header with the 8-byte unknown-size field
    <<Atom("container", ID_SEGMENT \o <<1, 255, 255, 255, 255, 255, 255, 255>>)>>,
    \* 9: codec private data of Opus
    <<Atom("leaf", ID_CODEC_PRIVATE \o <<137>> \o OPUS_HEAD \o <<1>>)>>,
    \* 10: codec private data of Vorbis: 2, lengths 7 and 1, then the three headers
    <<Atom("leaf", ID_CODEC_PRIVATE \o <<140, 2, 7, 1, 1>> \o VORBIS_HEAD \o <<5, 6>>)>>,
    \* 11: Tracks header
    <<Atom("container", ID_TRACKS \o <<144>>)>>,
    \* 12: Cluster header
    <<Atom("container", ID_CLUSTER \o <<144>>)>>,
    \* 13: a track entry, number 1, type 2 (a second audio track)
    <<Atom("container", ID_TRACK_ENTRY \o <<134>>),
      Atom("leaf", ID_TRACK_NUMBER \o <<129, 1>>), Atom("leaf", ID_TRACK_TYPE \o <<129, 2>>)>>,
    \* 14: a simple block whose first byte is 92 (low nibble 2), payload dd
    <<Atom("leaf", ID_SIMPLE_BLOCK \o <<133, 146, 0, 0, 128, 221>>)>>,
    \* 15: a simple block of track 2 with a 1-byte body
    <<Atom("leaf", ID_SIMPLE_BLOCK \o <<129, 130>>)>>
>>

\* elements per generated stream, after the root
MaxElems == 2

\* the elements combined freely after the root
FreeElems == 2..7

\* streams with the other elements, and streams that do not start with the root
CodecPlans == {<<1, 9>>, <<1, 10>>, <<1, 3, 9, 6>>, <<1, 3, 10, 6>>}
OtherPlans == {<<1, 8, 11, 3, 12, 6>>, <<1, 8, 7, 11, 2, 4, 12, 5, 6>>, <<1, 3, 7, 6>>,
               <<1, 3, 6, 5, 6>>, <<1, 3, 13, 5, 6>>, <<1, 3, 14, 15>>}
NoRootPlans == {<<k>> : k \in 2..8} \cup {<<5, 1>>, <<3, 1, 6>>}

FreePlans == {<<1>> \o p : p \in SeqsBetween(FreeElems, 0, MaxElems)}

PlanAtoms(plan) == Flatten([i \in 1..Len(plan) |-> WebmLib[plan[i]]])

AtomsBytes(atoms) == Flatten([i \in 1..Len(atoms) |-> atoms[i].bytes])

----------------------------------------------------------------------------
(* VolumeTransformer *)

\* line 60: bytes per sample of the type given to the constructor
VolBytes(type) == IF type \in {"s16le", "s16be"} THEN 2 ELSE 4

\* line 61: extremum - 1, the largest sample; the smallest is -extremum
VolMax(type) == IF VolBytes(type) = 2 THEN 32767 ELSE 2147483647

Reverse(s) == [i \in 1..Len(s) |-> s[Len(s) + 1 - i]]

\* a signed big-endian integer: the first byte carries the sign
RECURSIVE ReadBE(_, _)
ReadBE(bytes, v) == IF bytes = <<>> THEN v ELSE ReadBE(Tail(bytes), v * 256 + Head(bytes))

\* lines 37, 42, 47, 52: buffer.readInt16LE / 16BE / 32LE / 32BE (index)
ReadInt(type, buffer, index) ==
    LET raw == SubSeq(buffer, index + 1, index + VolBytes(type))
        be == IF type \in {"s16le", "s32le"} THEN Reverse(raw) ELSE raw
    IN  ReadBE(Tail(be), IF Head(be) >= 128 THEN Head(be) - 256 ELSE Head(be))

\* the n bytes of the two's complement of int, least significant first
RECURSIVE BytesLE(_, _)
BytesLE(int, n) == IF n = 0 THEN <<>> ELSE <<int % 256>> \o BytesLE(int \div 256, n - 1)

\* lines 38, 43, 48, 53: the bytes buffer.writeInt16LE / 16BE / 32LE / 32BE writes
WriteInt(type, int) ==
    IF type \in {"s16le", "s32le"} THEN BytesLE(int, VolBytes(type))
    ELSE Reverse(BytesLE(int, VolBytes(type)))

\* line 92: the scaled sample, clamped.  The volume is the fraction num / den
Scale(type, volume, int) ==
    Min(VolMax(type), Max(-VolMax(type) - 1, (volume.num * int) \div volume.den))

\* lines 91-95: the bytes written into `transformed` for the whole samples
RECURSIVE VolLoop(_, _, _, _)
VolLoop(t, newChunk, i, complete) ==
    IF i < complete
    THEN WriteInt(t.type, Scale(t.type, t.volume, ReadInt(t.type, newChunk, i)))
             \o VolLoop(t, newChunk, i + VolBytes(t.type), complete)
    ELSE <<>>

\* lines 88-98, given newChunk and `complete`: Buffer.allocUnsafe does not
\* initialise `transformed`, so the bytes after the last whole sample are
\* whatever the memory held (the first bytes of junk)
VolPush(t, newChunk, complete, junk) ==
    [t |-> [t EXCEPT !.chunk = Some(SliceFrom(newChunk, complete))],
     pushed |-> Some(VolLoop(t, newChunk, 0, complete)
                         \o SubSeq(junk, 1, Len(newChunk) - complete))]

\* lines 82-100, given newChunk
VolScaled(t, newChunk, junk) ==
    IF Len(newChunk) < VolBytes(t.type)
    THEN [t |-> [t EXCEPT !.chunk = Some(newChunk)], pushed |-> None]
    ELSE VolPush(t, newChunk, (Len(newChunk) \div VolBytes(t.type)) * VolBytes(t.type), junk)

\* lines 73-101.  t is the instance; the result is the instance after the call
\* and the buffer pushed (None when nothing is pushed)
VolTransformCall(t, chunk, junk) ==
    IF t.volume.num = t.volume.den THEN [t |-> t, pushed |-> Some(chunk)]
    ELSE VolScaled(t, IF t.chunk # None THEN t.chunk[1] \o chunk ELSE chunk, junk)

----------------------------------------------------------------------------
(* The state machines *)

OggIdle ==
    /\ oggPlan = <<>>
    /\ oggInput = <<>>
    /\ oggFed = 0
    /\ oggBytewise = TRUE
    /\ ogg = OggNew
    /\ oggLog = <<>>
    /\ oggErr = "none"
    /\ oggPhase = "idle"

WebmIdle ==
    /\ webmPlan = <<>>
    /\ webmInput = <<>>
    /\ webmFed = 0
    /\ webmBytewise = TRUE
    /\ webmVariant = "base"
    /\ webm = WebmNew
    /\ webmOut = <<>>
    /\ webmTrace = <<>>
    /\ webmErr = "none"
    /\ webmPhase = "idle"

\* no VolumeTransformer is constructed
VolIdle ==
    /\ volInput = <<>>
    /\ volFed = 0
    /\ vol = [type |-> "none", volume |-> [num |-> 1, den |-> 1], chunk |-> None]
    /\ volOut = <<>>
    /\ volPhase = "idle"

\* no operation is studied in isolation
ProbeIdle == probe = [fn |-> "none", input |-> <<>>, done |-> FALSE, out |-> <<>>]

OggStart ==
    /\ oggPlan \in OggPlans
    /\ oggInput = PlanBytes(oggPlan)
    /\ oggFed = 0
    /\ oggBytewise = TRUE
    /\ ogg = OggNew
    /\ oggLog = <<>>
    /\ oggErr = "none"
    /\ oggPhase = "open"

WebmStart ==
    /\ \/ webmPlan \in FreePlans \cup OtherPlans \cup NoRootPlans /\ webmVariant = "opus"
       \/ webmPlan \in CodecPlans /\ webmVariant \in {"base", "opus", "vorbis"}
    /\ webmInput = AtomsBytes(PlanAtoms(webmPlan))
    /\ webmFed = 0
    /\ webmBytewise = TRUE
    /\ webm = WebmNew
    /\ webmOut = <<>>
    /\ webmTrace = <<>>
    /\ webmErr = "none"
    /\ webmPhase = "open"

InitOgg == OggStart /\ WebmIdle /\ ProbeIdle /\ VolIdle
InitWebm == WebmStart /\ OggIdle /\ ProbeIdle /\ VolIdle
Init == InitOgg \/ InitWebm

\* one OggDemuxer._transform call with the next n bytes of the stream
OggTransform ==
    /\ oggPhase = "open"
    /\ oggErr = "none"
    /\ oggFed < Len(oggInput)
    /\ \E n \in ChunkSizes(Len(oggInput) - oggFed) :
        LET r == OggTransformCall(ogg, oggLog, SubSeq(oggInput, oggFed + 1, oggFed + n))
        IN  /\ ogg' = r.d
            /\ oggLog' = r.log
            /\ oggErr' = r.err
            /\ oggFed' = oggFed + n
            /\ oggBytewise' = (oggBytewise /\ n = 1)
    /\ UNCHANGED <<oggPlan, oggInput, oggPhase>>
    /\ UNCHANGED webmVars
    /\ UNCHANGED <<probe, volVars>>

\* OggDemuxer._final (lines 117-120): the writable side ended after the whole
\* stream was written
OggFinal ==
    /\ oggPhase = "open"
    /\ oggErr = "none"
    /\ oggFed = Len(oggInput)
    /\ ogg' = OggCleanup(ogg)
    /\ oggPhase' = "final"
    /\ UNCHANGED <<oggPlan, oggInput, oggFed, oggBytewise, oggLog, oggErr>>
    /\ UNCHANGED webmVars
    /\ UNCHANGED <<probe, volVars>>

\* OggDemuxer._destroy (lines 112-115): explicit destroy, or the teardown after
\* an error
OggDestroy ==
    /\ oggPhase = "open"
    /\ ogg' = OggCleanup(ogg)
    /\ oggPhase' = "destroyed"
    /\ UNCHANGED <<oggPlan, oggInput, oggFed, oggBytewise, oggLog, oggErr>>
    /\ UNCHANGED webmVars
    /\ UNCHANGED <<probe, volVars>>

\* one WebmBaseDemuxer._transform call with the next n bytes of the stream
WebmTransform ==
    /\ webmPhase = "open"
    /\ webmErr = "none"
    /\ webmFed < Len(webmInput)
    /\ \E n \in ChunkSizes(Len(webmInput) - webmFed) :
        LET r == WebmTransformCall(webmVariant,
                                   [w |-> webm, out |-> webmOut, trace |-> webmTrace],
                                   SubSeq(webmInput, webmFed + 1, webmFed + n))
        IN  /\ webm' = r.s.w
            /\ webmOut' = r.s.out
            /\ webmTrace' = r.s.trace
            /\ webmErr' = r.err
            /\ webmFed' = webmFed + n
            /\ webmBytewise' = (webmBytewise /\ n = 1)
    /\ UNCHANGED <<webmPlan, webmInput, webmVariant, webmPhase>>
    /\ UNCHANGED oggVars
    /\ UNCHANGED <<probe, volVars>>

\* WebmBaseDemuxer._final (Opus.ts lines 416-419)
WebmFinal ==
    /\ webmPhase = "open"
    /\ webmErr = "none"
    /\ webmFed = Len(webmInput)
    /\ webm' = WebmCleanup(webm)
    /\ webmPhase' = "final"
    /\ UNCHANGED <<webmPlan, webmInput, webmFed, webmBytewise, webmVariant, webmOut,
                   webmTrace, webmErr>>
    /\ UNCHANGED oggVars
    /\ UNCHANGED <<probe, volVars>>

\* WebmBaseDemuxer._destroy (Opus.ts lines 411-414)
WebmDestroy ==
    /\ webmPhase = "open"
    /\ webm' = WebmCleanup(webm)
    /\ webmPhase' = "destroyed"
    /\ UNCHANGED <<webmPlan, webmInput, webmFed, webmBytewise, webmVariant, webmOut,
                   webmTrace, webmErr>>
    /\ UNCHANGED oggVars
    /\ UNCHANGED <<probe, volVars>>

NextOgg == OggTransform \/ OggFinal \/ OggDestroy
NextWebm == WebmTransform \/ WebmFinal \/ WebmDestroy
Next == NextOgg \/ NextWebm

\* the OggDemuxer alone, the WebmDemuxer alone, and either of them
SpecOgg == InitOgg /\ [][NextOgg]_vars
SpecWebm == InitWebm /\ [][NextWebm]_vars
Spec == Init /\ [][Next]_vars

----------------------------------------------------------------------------
(* The VolumeTransformer state machine *)

\* most samples of a generated PCM stream
MaxSamples == 2

\* the samples a stream is made of, the sample types, the volumes (32-bit
\* samples are not doubled), and the bytes uninitialised memory may hold
VolSampleValues(type) == {0, 1, -1, 3, 1000, VolMax(type), -VolMax(type) - 1}
VolVolumes(type) ==
    {[num |-> 1, den |-> 1], [num |-> 1, den |-> 2], [num |-> 0, den |-> 1]}
        \cup (IF VolBytes(type) = 2 THEN {[num |-> 2, den |-> 1]} ELSE {})
JunkBytes == {0, 170}

\* the instance after construction (lines 19, 32-63) and the stream written to it
InitVol ==
    /\ OggIdle /\ WebmIdle /\ ProbeIdle
    /\ \E type \in {"s16le", "s16be", "s32le", "s32be"} :
        /\ \E volume \in VolVolumes(type) :
               vol = [type |-> type, volume |-> volume, chunk |-> Some(<<>>)]
        /\ \E samples \in SeqsBetween(VolSampleValues(type), 1, MaxSamples) :
               volInput = Flatten([k \in DOMAIN samples |-> WriteInt(type, samples[k])])
    /\ volFed = 0
    /\ volOut = <<>>
    /\ volPhase = "open"

\* one VolumeTransformer._transform call with the next n bytes of the stream
VolTransform ==
    /\ volPhase = "open"
    /\ volFed < Len(volInput)
    /\ \E n \in ChunkSizes(Len(volInput) - volFed), junk \in [1..3 -> JunkBytes] :
        LET r == VolTransformCall(vol, SubSeq(volInput, volFed + 1, volFed + n), junk)
        IN  /\ vol' = r.t
            /\ volOut' = volOut \o r.pushed
            /\ volFed' = volFed + n
    /\ UNCHANGED <<volInput, volPhase>>
    /\ UNCHANGED <<oggVars, webmVars, probe>>

\* VolumeTransformer._destroy (lines 103-107)
VolDestroy ==
    /\ volPhase = "open"
    /\ vol' = [vol EXCEPT !.chunk = None]
    /\ volPhase' = "destroyed"
    /\ UNCHANGED <<volInput, volFed, volOut>>
    /\ UNCHANGED <<oggVars, webmVars, probe>>

NextVol == VolTransform \/ VolDestroy
SpecVol == InitVol /\ [][NextVol]_vars

----------------------------------------------------------------------------
(* Whole streams in one call, and what the consumer observes *)

\* the whole of `input` written in a single _transform call to a new instance
OggOneShot(input) == OggTransformCall(OggNew, <<>>, input)
WebmOneShot(variant, input) ==
    WebmTransformCall(variant, [w |-> WebmNew, out |-> <<>>, trace |-> <<>>], input)

\* the events a WebmBaseDemuxer has emitted: the class holds no emit call
\* (Opus.ts lines 215-428), whatever it has read
WebmEvents(trace) == <<>>

RootError == "Did not find the EBML tag at the start of the stream"
NoAudioTrackError == "No audio track in this webm!"

----------------------------------------------------------------------------
(* Readings of the streams and of the logs, for the claims *)

IsSuffix(p, s) == Len(p) <= Len(s) /\ SubSeq(s, Len(s) - Len(p) + 1, Len(s)) = p

\* offset of the first byte of page k of the plan (k = Len(plan) + 1: the end)
RECURSIVE PageStart(_, _)
PageStart(plan, k) ==
    IF k <= 1 THEN 0 ELSE PageStart(plan, k - 1) + Len(OggPageLib[plan[k - 1]])

\* offset of the first byte of atom k (k = Len(atoms) + 1: the end)
RECURSIVE AtomStart(_, _)
AtomStart(atoms, k) ==
    IF k <= 1 THEN 0 ELSE AtomStart(atoms, k - 1) + Len(atoms[k - 1].bytes)

OggPushed(log) == SelectSeq(log, LAMBDA e : e.type = "push")
OggEvents(log) == SelectSeq(log, LAMBDA e : e.type \in {"head", "tags", "unknownSegment"})

\* index of the head event of the log, 0 when there is none
HeadIndex(log) ==
    IF \E i \in DOMAIN log : log[i].type = "head"
    THEN CHOOSE i \in DOMAIN log : log[i].type = "head" /\ \A j \in 1..(i - 1) : log[j].type # "head"
    ELSE 0

\* a page of the library whose capture pattern and version pass
PageHeaderOk(page) == SubSeq(page, 1, 4) = OGGS_HEADER /\ page[5] = STREAM_STRUCTURE_VERSION

\* buf starts with a page that is completely present: the 27-byte header, the
\* N-byte segment table and the payload the table declares
OggCompletePage(buf) ==
    IF Len(buf) < 27 THEN FALSE
    ELSE IF Len(buf) < 27 + buf[27] THEN FALSE
    ELSE Len(buf) >= 27 + buf[27] + SumSeq(SubSeq(buf, 28, 27 + buf[27]))

\* the stream starts with the root tag 1a45dfa3
FirstIsRoot(input) == IsPrefix(ID_EBML, input)
\* number of bytes of the first element ID of the stream
FirstIdLength(input) == VintScan(input[1], 0) + 1

----------------------------------------------------------------------------
(* Single operations on one input: _readPage on a page with a given segment *)
(* table, _readTagDataSize on a given field, _transform on a given           *)
(* codec-private element or on a whole stream, vintLength on a given first   *)
(* byte, FFmpeg.getInfo on a given cache and machine                         *)

\* longest segment table
MaxTable == 3
\* most bytes after the first byte of a variable-length field
MaxField == 8
\* most bytes after the fixed part of a codec-private payload
MaxRest == 2

\* n bytes b+1, b+2, ... (mod 256)
Ramp(n, b) == [i \in 1..n |-> (b + i) % 256]

\* segment tables, and the page of serial 1 that carries table t and n payload bytes
TableBytes == {0, 1, 10, 255}
LaceTables == SeqsBetween(TableBytes, 0, MaxTable)
LacePage(t, n) == MkPage(OGGS_HEADER, STREAM_STRUCTURE_VERSION, 1, t, Ramp(n, 0))

\* _readPage on a new instance, for the page of table t: what the lacing loops
\* give, the page one payload byte short, and the whole page
ReadPageProbe(t) ==
    [laced |-> LaceSizes(t),
     short |-> ReadPage([head |-> None, bitstream |-> None, log |-> <<>>],
                        LacePage(t, SumSeq(t) - 1)).kind,
     full |-> ReadPage([head |-> None, bitstream |-> None, log |-> <<>>],
                       LacePage(t, SumSeq(t)))]

\* variable-length fields: a first byte, then up to MaxField bytes, read at
\* index 0 or behind one byte
VintFirsts == {129, 65, 64, 33, 16, 8, 4, 2, 1, 0, 255}
VintFields ==
    {<<f>> \o Ramp(n, b) : f \in VintFirsts, n \in 0..MaxField, b \in {0, 1, 127, 254}}
VintInputs == {[buffer |-> Ramp(i, 254) \o v, index |-> i] : v \in VintFields, i \in {0, 1}}

\* codec-private payloads for the Opus hook: 'OpusHead' plus two bytes, cut at
\* every length, and with each byte of the signature replaced
OpusPayloads ==
    {SubSeq(OPUS_HEAD \o Ramp(MaxRest, 0), 1, n) : n \in 0..(8 + MaxRest)}
        \cup {[OPUS_HEAD \o Ramp(MaxRest, 0) EXCEPT ![k] = 0] : k \in 1..8}

\* codec-private payloads for the Vorbis hook: the layout with the signature at
\* byte 3, the layout with the signature at byte 4, and the latter cut short
VorbisAt3 == {<<2, 3, 4>> \o VORBIS_HEAD \o Ramp(7 + r, 100) : r \in 0..MaxRest}
VorbisAt4 ==
    {<<b0, l1, l2, 9>> \o sig \o Ramp(r, 100) :
        b0 \in {1, 2}, l1 \in {0, 1, 3, 200}, l2 \in {0, 2, 200},
        sig \in {VORBIS_HEAD, [VORBIS_HEAD EXCEPT ![6] = 122]}, r \in 0..MaxRest}
VorbisCut == {SubSeq(<<2, 1, 2, 9>> \o VORBIS_HEAD, 1, n) : n \in 0..9}
VorbisPayloads == VorbisAt3 \cup VorbisAt4 \cup VorbisCut

\* the 63a2 element with this payload (1-byte size field)
CodecPrivate(payload) == ID_CODEC_PRIVATE \o <<128 + Len(payload)>> \o payload

\* the instance that has read the root header, or the root header and the
\* track entry of audio track 2
AfterRoot(variant, pre) ==
    WebmOneShot(variant,
                IF pre = "track" THEN AtomsBytes(PlanAtoms(<<1, 3>>))
                ELSE AtomsBytes(PlanAtoms(<<1>>))).s

HeadInputs ==
    {[variant |-> "opus", pre |-> pre, payload |-> p] :
        pre \in {"root", "track"}, p \in OpusPayloads}
    \cup {[variant |-> "vorbis", pre |-> pre, payload |-> p] :
        pre \in {"root", "track"}, p \in VorbisPayloads}

\* size fields of 1 to 8 bytes, the last two declaring 0xffffffec bytes and the
\* unknown size, and the stream that is the root header followed by an unknown
\* element (Void, ec) with such a size field and n bytes of body
SizeFields == {<<129>>, <<64, 1>>, <<16, 0, 0, 1>>, <<8, 0, 0, 0, 1>>,
               <<8, 255, 255, 255, 236>>, <<1, 255, 255, 255, 255, 255, 255, 255>>}
SizedStreams ==
    {ID_EBML \o <<132, 236>> \o f \o Ramp(n, 0) : f \in SizeFields, n \in 0..MaxRest}

\* FFmpeg.getInfo.  line 176: the candidate commands, in order (the first is
\* what require('ffmpeg-static') returns)
FFSources == <<"ffmpeg-static", "ffmpeg", "avconv", "./ffmpeg", "./avconv">>

\* lines 178-200, entered with the candidates still to try: the body of the
\* loop for the first of them.  A candidate in `works` is one that require and
\* spawnSync run without error; `ran` lists the candidates tried.  The throw of
\* line 199 stands inside the loop, after the try statement.
GetInfoLoop(cache, works, sources) ==
    IF sources = <<>>
    THEN [kind |-> "undefined", command |-> None, cache |-> cache, ran |-> <<>>]
    ELSE IF Head(sources) \in works
    THEN [kind |-> "return", command |-> Some(Head(sources)),
          cache |-> Some(Head(sources)), ran |-> <<Head(sources)>>]
    ELSE [kind |-> "throw", command |-> None, cache |-> cache, ran |-> <<Head(sources)>>]

\* lines 170-201.  cache is FFMPEG.command: None, or the command found earlier
GetInfo(cache, force, works) ==
    IF cache # None /\ ~force
    THEN [kind |-> "return", command |-> cache, cache |-> cache, ran |-> <<>>]
    ELSE GetInfoLoop(cache, works, FFSources)

\* the calls of getInfo: any cache, either value of force, any set of
\* candidates that work on the machine
GetInfoInputs ==
    {[cache |-> c, force |-> f, works |-> w] :
        c \in {None} \cup {Some(FFSources[k]) : k \in DOMAIN FFSources},
        f \in BOOLEAN, w \in SUBSET {FFSources[k] : k \in DOMAIN FFSources}}

\* the buffers vintLength is called on: every first byte, alone and followed by
\* 1, MaxField - 1 or MaxField bytes, read at index 0
FirstByteInputs ==
    {[buffer |-> <<f>> \o Ramp(n, 0), index |-> 0] :
        f \in 0..255, n \in {0, 1, MaxField - 1, MaxField}}

ProbeOf(fn, input) == [fn |-> fn, input |-> input, done |-> FALSE, out |-> <<>>]

InitFn ==
    /\ OggIdle /\ WebmIdle /\ VolIdle
    /\ \/ \E t \in LaceTables : probe = ProbeOf("readPage", t)
       \/ \E v \in VintInputs : probe = ProbeOf("readTagDataSize", v)
       \/ \E h \in HeadInputs : probe = ProbeOf("codecPrivate", h)
       \/ \E b \in SizedStreams : probe = ProbeOf("transform", b)
       \/ \E g \in GetInfoInputs : probe = ProbeOf("getInfo", g)
       \/ \E v \in FirstByteInputs : probe = ProbeOf("vintLength", v)

\* OggDemuxer._readPage on the page that carries the table
ReadPageApply ==
    /\ probe.fn = "readPage" /\ ~probe.done
    /\ probe' = [probe EXCEPT !.done = TRUE, !.out = ReadPageProbe(probe.input)]
    /\ UNCHANGED <<oggVars, webmVars, volVars>>

\* WebmBaseDemuxer._readTagDataSize (vintLength, then expandVint) on the field
ReadTagDataSizeApply ==
    /\ probe.fn = "readTagDataSize" /\ ~probe.done
    /\ probe' = [probe EXCEPT !.done = TRUE,
                              !.out = ReadTagDataSize(probe.input.buffer, probe.input.index)]
    /\ UNCHANGED <<oggVars, webmVars, volVars>>

\* WebmBaseDemuxer._transform with the codec-private element as the chunk
CodecPrivateApply ==
    /\ probe.fn = "codecPrivate" /\ ~probe.done
    /\ probe' = [probe EXCEPT
                    !.done = TRUE,
                    !.out = WebmTransformCall(probe.input.variant,
                                              AfterRoot(probe.input.variant, probe.input.pre),
                                              CodecPrivate(probe.input.payload))]
    /\ UNCHANGED <<oggVars, webmVars, volVars>>

\* WebmBaseDemuxer._transform of a new instance with the whole stream as the chunk
TransformApply ==
    /\ probe.fn = "transform" /\ ~probe.done
    /\ probe' = [probe EXCEPT !.done = TRUE, !.out = WebmOneShot("opus", probe.input)]
    /\ UNCHANGED <<oggVars, webmVars, volVars>>

\* FFmpeg.getInfo(force) with the given cache, on a machine where the given
\* candidates work
GetInfoApply ==
    /\ probe.fn = "getInfo" /\ ~probe.done
    /\ probe' = [probe EXCEPT !.done = TRUE,
                              !.out = GetInfo(probe.input.cache, probe.input.force,
                                              probe.input.works)]
    /\ UNCHANGED <<oggVars, webmVars, volVars>>

\* vintLength(buffer, index)
VintLengthApply ==
    /\ probe.fn = "vintLength" /\ ~probe.done
    /\ probe' = [probe EXCEPT !.done = TRUE,
                              !.out = VintLength(probe.input.buffer, probe.input.index)]
    /\ UNCHANGED <<oggVars, webmVars, volVars>>

NextFn ==
    \/ ReadPageApply \/ ReadTagDataSizeApply \/ CodecPrivateApply \/ TransformApply
    \/ GetInfoApply \/ VintLengthApply
SpecFn == InitFn /\ [][NextFn]_vars

----------------------------------------------------------------------------
(* Claims *)

\* C1: an Ogg stream delivered in any split into chunks (one byte per call
\* included) yields the same pushed packets and the same 'head', 'tags' and
\* 'unknownSegment' events, in the same order, as the stream delivered in one call.
C1_OggChunkingEquivalence ==
    (oggPhase # "idle" /\ oggFed = Len(oggInput)) =>
        /\ OggPushed(oggLog) = OggPushed(OggOneShot(oggInput).log)
        /\ OggEvents(oggLog) = OggEvents(OggOneShot(oggInput).log)
        /\ oggErr = OggOneShot(oggInput).err

C1_Witness ==
    /\ oggBytewise /\ oggFed = Len(oggInput) /\ oggFed > 1 /\ oggErr = "none"
    /\ Len(OggPushed(oggLog)) >= 2
    /\ OggEvents(oggLog) # <<>>

\* C2: an EBML/WebM stream delivered in any split into chunks yields the same
\* pushed packets and the same resolved audio track as the stream delivered in
\* one call, also when the end of an unknown element lies chunks after its header.
C2_WebmChunkingEquivalence ==
    (webmPhase # "idle" /\ webmFed = Len(webmInput)) =>
        /\ webmOut = WebmOneShot(webmVariant, webmInput).s.out
        /\ webm._track = WebmOneShot(webmVariant, webmInput).s.w._track
        /\ webmErr = WebmOneShot(webmVariant, webmInput).err

C2_Witness ==
    /\ webmBytewise /\ webmFed = Len(webmInput) /\ webmErr = "none"
    /\ webmOut # <<>>
    /\ webm._track # None
    /\ \E i \in DOMAIN webmTrace : webmTrace[i].act = "skipUntil"

\* C3: after every OggDemuxer._transform call that returns normally the retained
\* remainder is the unconsumed suffix of the bytes received and never begins
\* with a complete page, whatever the segment table holds.
C3_CompletePagesConsumed ==
    (oggPhase = "open" /\ oggErr = "none" /\ oggFed > 0) =>
        /\ ogg._remainder # None
        /\ IsSuffix(ogg._remainder[1], SubSeq(oggInput, 1, oggFed))
        /\ ~OggCompletePage(ogg._remainder[1])

\* C4: once a head is recorded, a segment that begins with 'OpusTags' is
\* signalled with a 'tags' event and is not pushed.
C4_TagsSignalled ==
    \A i \in DOMAIN oggLog :
        (HeadIndex(oggLog) \in 1..(i - 1) /\ IsPrefix(OPUS_TAGS_SIGNATURE, oggLog[i].data))
            => oggLog[i].type = "tags"

C6_BadFirstPage ==
    (oggPhase # "idle" /\ ~PageHeaderOk(oggInput)) =>
        /\ oggLog = <<>>
        /\ oggFed >= 26 => oggErr \in {"capture_pattern", "stream_structure_version"}
        /\ oggFed < 26 => oggErr = "none"

C6_Witness ==
    /\ oggPhase = "open" /\ ~PageHeaderOk(oggInput)
    /\ oggBytewise /\ oggFed = 26
    /\ oggErr = "capture_pattern"

\* C7: while the bytes received end inside an Ogg page or inside a known EBML
\* leaf that the demuxer reached without error (the pages have the capture
\* pattern and version 0, the root tag was seen), no error is raised, nothing of
\* that page or element is pushed or emitted, and the remainder holds every byte
\* from the first byte of that page or element onward.
C7_OggStall ==
    \A k \in DOMAIN oggPlan :
        (/\ oggPhase = "open"
         /\ PageStart(oggPlan, k) < oggFed /\ oggFed < PageStart(oggPlan, k + 1)
         /\ \A j \in 1..k : PageHeaderOk(OggPageLib[oggPlan[j]]))
        => /\ oggErr = "none"
           /\ ogg._remainder # None
           /\ IsSuffix(SubSeq(oggInput, PageStart(oggPlan, k) + 1, oggFed), ogg._remainder[1])
           /\ oggLog = OggOneShot(SubSeq(oggInput, 1, PageStart(oggPlan, k))).log

C7_WebmStallAt(atoms, k) ==
    (/\ atoms[k].kind = "leaf"
     /\ AtomStart(atoms, k) < webmFed /\ webmFed < AtomStart(atoms, k + 1)
     /\ WebmOneShot(webmVariant, SubSeq(webmInput, 1, AtomStart(atoms, k))).err = "none"
     /\ WebmOneShot(webmVariant, SubSeq(webmInput, 1, AtomStart(atoms, k))).s.w._ebmlFound)
    => /\ webmErr = "none"
       /\ webm._remainder # None
       /\ IsSuffix(SubSeq(webmInput, AtomStart(atoms, k) + 1, webmFed), webm._remainder[1])
       /\ webmOut = WebmOneShot(webmVariant, SubSeq(webmInput, 1, AtomStart(atoms, k))).s.out
       /\ \A i \in DOMAIN webmTrace : webmTrace[i].at < AtomStart(atoms, k)

C7_WebmStall ==
    webmPhase = "open" =>
        \A k \in DOMAIN PlanAtoms(webmPlan) : C7_WebmStallAt(PlanAtoms(webmPlan), k)

C7_StallRetainsBytes == C7_OggStall /\ C7_WebmStall

\* two bytes short of the end of the simple block of track 2, with the track resolved
C7_Witness ==
    /\ webmPhase = "open" /\ webmErr = "none" /\ webmBytewise
    /\ webm._track # None
    /\ \E k \in DOMAIN PlanAtoms(webmPlan) :
        /\ PlanAtoms(webmPlan)[k].kind = "leaf"
        /\ IsPrefix(ID_SIMPLE_BLOCK, PlanAtoms(webmPlan)[k].bytes)
        /\ webmFed = AtomStart(PlanAtoms(webmPlan), k + 1) - 2
        /\ webm._remainder # None
        /\ Len(webm._remainder[1]) = Len(PlanAtoms(webmPlan)[k].bytes) - 2

\* C8: when the first element ID is not the root tag, the error is raised in the
\* call in which the ID becomes decodable, with nothing pushed and no element
\* processed; a stream that starts with the root tag never raises it.
C8_RootTagFirst ==
    webmPhase # "idle" =>
        /\ ~FirstIsRoot(webmInput) =>
              /\ webmOut = <<>> /\ webmTrace = <<>> /\ webm._track = None
              /\ webmFed >= FirstIdLength(webmInput) => webmErr = RootError
              /\ webmFed < FirstIdLength(webmInput) => webmErr = "none"
        /\ FirstIsRoot(webmInput) => webmErr # RootError

C8_Witness ==
    /\ webmPhase = "open" /\ ~FirstIsRoot(webmInput)
    /\ FirstIdLength(webmInput) = 4
    /\ webmBytewise /\ webmFed = 4
    /\ webmErr = RootError

\* C9: a complete simple block processed while no audio track is resolved raises
\* 'No audio track in this webm!' and pushes nothing, whatever its track number.
C9_BlockWithoutTrack ==
    \A i \in DOMAIN webmTrace :
        (webmTrace[i].id = ID_SIMPLE_BLOCK /\ webmTrace[i].after = None) =>
            /\ webmTrace[i].act = "throw"
            /\ i = Len(webmTrace)
            /\ webmErr = NoAudioTrackError
            /\ webmTrace[i].nOut = (IF i = 1 THEN 0 ELSE webmTrace[i - 1].nOut)
            /\ webmTrace[i].nOut = Len(webmOut)

C9_Witness ==
    /\ webmErr = NoAudioTrackError
    /\ ~webmBytewise
    /\ \E i \in DOMAIN webmTrace :
        /\ webmTrace[i].id = ID_SIMPLE_BLOCK /\ webmTrace[i].data0 = Some(130)
        /\ \E j \in 1..(i - 1) : webmTrace[j].id = ID_TRACK_ENTRY

\* index of the last track-entry element before entry i of the trace, 0 when there is none
LastTrackEntry(trace, i) ==
    IF \E a \in 1..(i - 1) : trace[a].id = ID_TRACK_ENTRY
    THEN CHOOSE a \in 1..(i - 1) :
            /\ trace[a].id = ID_TRACK_ENTRY
            /\ \A b \in (a + 1)..(i - 1) : trace[b].id # ID_TRACK_ENTRY
    ELSE 0

\* C10: when a descriptor is promoted to the audio track, its number and its
\* type 2 were both read from leaves of the track entry being read: no field of
\* an earlier track entry is combined with a field of a later one.
C10_SiblingFields ==
    \A i \in DOMAIN webmTrace :
        (webmTrace[i].before = None /\ webmTrace[i].after # None) =>
            /\ LastTrackEntry(webmTrace, i) > 0
            /\ \E n \in (LastTrackEntry(webmTrace, i) + 1)..i :
                /\ webmTrace[n].id = ID_TRACK_NUMBER
                /\ webmTrace[n].data0 = webmTrace[i].after[1].number
            /\ \E m \in (LastTrackEntry(webmTrace, i) + 1)..i :
                /\ webmTrace[m].id = ID_TRACK_TYPE
                /\ webmTrace[m].data0 = Some(2)

\* C11: the resolved audio track is set at most once per instance: once a
\* descriptor is promoted, no later element and no later call changes the
\* track's number or type, a later qualifying audio track included.
C11_TrackKept ==
    \A i \in DOMAIN webmTrace :
        /\ webmTrace[i].before # None => webmTrace[i].after = webmTrace[i].before
        /\ i > 1 => webmTrace[i].before = webmTrace[i - 1].after
        /\ i = Len(webmTrace) => webm._track = webmTrace[i].after

C11_TrackSetOnce ==
    []C11_TrackKept /\ [][webm._track # None => webm'._track = webm._track]_vars

\* a second audio track entry (number 1) was read after track 2 was promoted
C11_Witness ==
    \E i, n, t \in DOMAIN webmTrace :
        /\ i < n /\ n < t
        /\ webmTrace[i].before = None /\ webmTrace[i].after # None
        /\ webmTrace[n].id = ID_TRACK_NUMBER
        /\ webmTrace[n].data0 # webmTrace[i].after[1].number
        /\ webmTrace[t].id = ID_TRACK_TYPE /\ webmTrace[t].data0 = Some(2)
        /\ webm._track = webmTrace[i].after

\* the atom of the stream that starts at absolute offset `at`, 0 when none does
AtomAt(atoms, at) ==
    IF \E k \in DOMAIN atoms : AtomStart(atoms, k) = at
    THEN CHOOSE k \in DOMAIN atoms : AtomStart(atoms, k) = at
    ELSE 0

\* the body of a library element with a 1-byte ID and a 1-byte size field
BodyOf(atom) == SubSeq(atom.bytes, 3, Len(atom.bytes))

\* the number of packets pushed before entry i of the trace
OutBefore(trace, i) == IF i = 1 THEN 0 ELSE trace[i - 1].nOut

\* C12: a complete simple block processed while the audio track is resolved
\* pushes exactly one packet, the body without its first 4 bytes, when the low
\* nibble of its first byte equals the track number; otherwise it pushes
\* nothing and raises no error.
C12_BlockAt(i, body) ==
    IF Some(body[1] % 16) = webmTrace[i].before[1].number
    THEN /\ webmTrace[i].act = "push"
         /\ webmTrace[i].nOut = OutBefore(webmTrace, i) + 1
         /\ webmOut[webmTrace[i].nOut] = SubSeq(body, 5, Len(body))
    ELSE /\ webmTrace[i].act = "drop"
         /\ webmTrace[i].nOut = OutBefore(webmTrace, i)

C12_SimpleBlock ==
    \A i \in DOMAIN webmTrace :
        (webmTrace[i].id = ID_SIMPLE_BLOCK /\ webmTrace[i].before # None) =>
            /\ AtomAt(PlanAtoms(webmPlan), webmTrace[i].at) # 0
            /\ C12_BlockAt(i, BodyOf(PlanAtoms(webmPlan)[AtomAt(PlanAtoms(webmPlan),
                                                                webmTrace[i].at)]))

\* byte by byte, a block of the resolved track was pushed and then a block of
\* another track dropped
C12_Witness ==
    /\ webmErr = "none" /\ webmBytewise
    /\ \E i, j \in DOMAIN webmTrace :
        /\ i < j
        /\ webmTrace[i].id = ID_SIMPLE_BLOCK /\ webmTrace[i].act = "push"
        /\ webmTrace[j].id = ID_SIMPLE_BLOCK /\ webmTrace[j].act = "drop"

\* index of the last entry of the trace that set _skipUntil, 0 when there is none
LastSkip(trace) ==
    IF \E i \in DOMAIN trace : trace[i].act = "skipUntil"
    THEN CHOOSE i \in DOMAIN trace :
            /\ trace[i].act = "skipUntil"
            /\ \A j \in (i + 1)..Len(trace) : trace[j].act # "skipUntil"
    ELSE 0

\* C13, the offset recorded: while _skipUntil is set it is the absolute offset of
\* the end of the body of the unknown element met last, and nothing was parsed
\* after that element.
C13_OffsetRecorded ==
    (webmPhase # "idle" /\ webm._skipUntil # None) =>
        /\ LastSkip(webmTrace) = Len(webmTrace) /\ Len(webmTrace) > 0
        /\ AtomAt(PlanAtoms(webmPlan), webmTrace[Len(webmTrace)].at) # 0
        /\ PlanAtoms(webmPlan)[AtomAt(PlanAtoms(webmPlan),
                                      webmTrace[Len(webmTrace)].at)].kind = "unknown"
        /\ webm._skipUntil[1] =
              AtomStart(PlanAtoms(webmPlan),
                        AtomAt(PlanAtoms(webmPlan), webmTrace[Len(webmTrace)].at) + 1)

\* C13, the calls after it: a call that does not bring the bytes received past the
\* recorded offset parses nothing and pushes nothing; the first call that does
\* resumes at exactly that offset.
C13_SkipStep ==
    (webm._skipUntil # None /\ webmFed' > webmFed) =>
        IF webmFed' <= webm._skipUntil[1]
        THEN /\ webmTrace' = webmTrace /\ webmOut' = webmOut /\ webmErr' = "none"
             /\ webm'._skipUntil = webm._skipUntil
        ELSE /\ \A i \in (Len(webmTrace) + 1)..Len(webmTrace') :
                    webmTrace'[i].at >= webm._skipUntil[1]
             /\ Len(webmTrace') > Len(webmTrace) =>
                    webmTrace'[Len(webmTrace) + 1].at = webm._skipUntil[1]
             /\ (Len(webmTrace') = Len(webmTrace) /\ webmErr' = "none") =>
                    /\ webm'._count = webm._skipUntil[1]
                    /\ webm'._remainder = Some(SubSeq(webmInput, webm._skipUntil[1] + 1, webmFed'))

\* C13: after an unknown element whose body is not fully buffered the demuxer
\* records the absolute offset of the end of the body, parses and pushes nothing
\* until the bytes received pass it, and then resumes at the first byte after the
\* body, however the body is split across chunks.
C13_SkipUntil == []C13_OffsetRecorded /\ [][C13_SkipStep]_vars

\* byte by byte: the body of an unknown element that reads like a simple block
\* was skipped over several calls and the block after it was pushed
C13_Witness ==
    /\ webmBytewise /\ webmErr = "none"
    /\ \E i \in DOMAIN webmTrace :
        /\ webmTrace[i].act = "skipUntil"
        /\ i < Len(webmTrace)
        /\ AtomAt(PlanAtoms(webmPlan), webmTrace[i].at) # 0
        /\ Len(PlanAtoms(webmPlan)[AtomAt(PlanAtoms(webmPlan), webmTrace[i].at)].bytes) = 8
        /\ webmTrace[i + 1].act = "push"
        /\ webmTrace[i + 1].at = webmTrace[i].at + 8

\* what this.push returns for the n-th packet while the consumer reads nothing:
\* FALSE once the readable side holds MaxBuffered packets
PushAccepts(n) == n < MaxBuffered

\* the pushes of one call stop at the first push that reported no capacity
C14_StopsWhenFull(before, after) ==
    \A n \in (before + 1)..(after - 1) : PushAccepts(n)

\* C14: when push reports no capacity, the demuxer pushes no further packet
\* from the current chunk.
C14_Backpressure ==
    [][/\ C14_StopsWhenFull(Len(OggPushed(oggLog)), Len(OggPushed(oggLog')))
       /\ C14_StopsWhenFull(Len(webmOut), Len(webmOut'))]_vars

\* C15, the state after teardown: nothing of the parse state is retained
C15_Discarded ==
    /\ oggPhase \in {"final", "destroyed"} =>
          ogg._remainder = None /\ ogg._head = None /\ ogg._bitstream = None
    /\ webmPhase \in {"final", "destroyed"} =>
          /\ webm._remainder = None
          /\ webm._incompleteTrack = NoTrack
          /\ webm._track = None

\* C15, the teardown step: it pushes no packet and emits no event
C15_TeardownStep ==
    /\ oggPhase' # oggPhase => oggLog' = oggLog
    /\ webmPhase' # webmPhase => webmOut' = webmOut

\* C15: after _destroy or _final all retained parse state is discarded (for
\* OggDemuxer the remainder, the head and the pinned bitstream; for
\* WebmBaseDemuxer the remainder, the in-progress descriptor and the resolved
\* audio track), and the teardown emits no packet.
C15_TeardownDiscardsState == []C15_Discarded /\ [][C15_TeardownStep]_vars

\* the positions of a table that close a segment (a value below 255), the k-th
\* of them, and the sums of the runs they close
Closers(t) == {i \in DOMAIN t : t[i] < 255}
NthCloser(t, k) ==
    IF k = 0 THEN 0
    ELSE CHOOSE i \in Closers(t) : Cardinality({j \in Closers(t) : j <= i}) = k
RunSums(t) ==
    [k \in 1..Cardinality(Closers(t)) |->
        SumSeq(SubSeq(t, NthCloser(t, k - 1) + 1, NthCloser(t, k)))]

\* the lengths of the segments _readPage took from the page
SegmentLengths(log) == [k \in DOMAIN log |-> Len(log[k].data)]

\* C16: the lacing reconstruction maps a segment table to the sums of its
\* maximal runs of 255s, each closed by a value below 255 ([255, 255, 10] gives
\* one segment of 520 bytes, [0] one segment of 0 bytes), and the page needs
\* exactly the sum of the reconstructed lengths as payload.
C16_Lacing ==
    (/\ probe.fn = "readPage" /\ probe.done
     /\ (probe.input = <<>> \/ probe.input[Len(probe.input)] < 255)) =>
        /\ probe.out.laced.ok
        /\ probe.out.laced.sizes = RunSums(probe.input)
        /\ probe.input = <<255, 255, 10>> => probe.out.laced.sizes = <<520>>
        /\ probe.input = <<0>> => probe.out.laced.sizes = <<0>>
        /\ SumSeq(probe.out.laced.sizes) = SumSeq(probe.input)
        /\ SumSeq(probe.input) > 0 => probe.out.short = "false"
        /\ probe.out.full.kind = "page" /\ probe.out.full.rest = <<>>
        /\ SegmentLengths(probe.out.full.st.log) = probe.out.laced.sizes

C16_Witness ==
    /\ probe.fn = "readPage" /\ probe.done
    /\ probe.input = <<255, 255, 10>>
    /\ probe.out.full.kind = "page"
    /\ SegmentLengths(probe.out.full.st.log) = <<520>>

\* the number of leading zero bits of a byte
LeadingZeros(f) == CHOOSE k \in 0..8 : f < Pow2(8 - k) /\ (k = 8 \/ f >= Pow2(7 - k))

\* the n base-256 digits of v >= 0, most significant first
RECURSIVE Digits(_, _)
Digits(v, n) == IF n = 0 THEN <<>> ELSE Digits(v \div 256, n - 1) \o <<v % 256>>

\* the bytes of the field of length L at `index`, the marker bit of the first masked off
FieldDigits(buffer, index, L) ==
    <<buffer[index + 1] % Pow2(Max(8 - L, 0))>> \o SubSeq(buffer, index + 2, index + L)

C17_Decoded(buffer, index, L, out) ==
    IF index + L <= Len(buffer)
    THEN /\ ~out.short
         /\ out.offset - index = L
         /\ out.dataLength >= 0
         /\ Digits(out.dataLength, L) = FieldDigits(buffer, index, L)
    ELSE out.short

\* C17: a field whose first byte has L-1 leading zero bits decodes to length L
\* and to the value of the first byte without its marker bit followed by the
\* next L-1 bytes, big-endian (81 gives length 1, value 1; 41 02 gives length 2,
\* value 0x102); a field that extends past the buffer gives TOO_SHORT.
C17_VintDecoding ==
    (probe.fn = "readTagDataSize" /\ probe.done) =>
        C17_Decoded(probe.input.buffer, probe.input.index,
                    LeadingZeros(probe.input.buffer[probe.input.index + 1]) + 1,
                    probe.out)

\* the lengths of the packets pushed
PacketLengths(out) == [k \in DOMAIN out |-> Len(out[k])]

\* C18: for the codec-private payload [2, 3, 4, 'vorbis', h1 (3 bytes), h2 (4
\* bytes), h3 (the rest)] the Vorbis head hook raises no error and pushes exactly
\* three packets, of lengths 3, 4 and the length of the rest.
C18_VorbisExample ==
    (/\ probe.fn = "codecPrivate" /\ probe.done
     /\ probe.input.variant = "vorbis"
     /\ probe.input.payload \in VorbisAt3) =>
        /\ probe.out.err = "none"
        /\ PacketLengths(probe.out.s.out) = <<3, 4, Len(probe.input.payload) - 16>>

\* the hook left the track, the descriptor and the root flag of instance w0 as
\* they were, and pushed nothing
C19_NothingChanged(w0, out) ==
    /\ out.s.out = <<>>
    /\ out.s.w._track = w0._track
    /\ out.s.w._incompleteTrack = w0._incompleteTrack
    /\ out.s.w._ebmlFound = w0._ebmlFound
    /\ out.err = "none" => out.s.w._count = out.s.w._length /\ out.s.w._skipUntil = None

\* C19: the Opus head hook raises 'Audio codec is not Opus!' exactly when the
\* first 8 bytes of the payload differ from 'OpusHead' (payloads shorter than 8
\* bytes included), and in both outcomes pushes no packet and changes no state
\* of the demuxer.
C19_OpusHead ==
    (/\ probe.fn = "codecPrivate" /\ probe.done
     /\ probe.input.variant = "opus") =>
        /\ probe.out.err = (IF IsPrefix(OPUS_HEAD, probe.input.payload)
                            THEN "none" ELSE "Audio codec is not Opus!")
        /\ C19_NothingChanged(AfterRoot("opus", probe.input.pre).w, probe.out)

\* a payload of 5 bytes, 'OpusH', is rejected by an instance with a resolved track
C19_Witness ==
    /\ probe.fn = "codecPrivate" /\ probe.done
    /\ probe.input.variant = "opus" /\ probe.input.pre = "track"
    /\ probe.input.payload = SubSeq(OPUS_HEAD, 1, 5)
    /\ probe.out.err = "Audio codec is not Opus!"
    /\ probe.out.s.w._track # None

\* the payload passes the test of the Vorbis hook: byte 0 is 2 and bytes 4..9
\* are 'vorbis'
VorbisAccepts(p) == Len(p) >= 10 /\ p[1] = 2 /\ SubSeq(p, 5, 10) = VORBIS_HEAD

\* C20: when the Vorbis head hook accepts a payload it pushes exactly three
\* packets, of lengths byte 1, byte 2 and the rest, whose concatenation is the
\* payload from byte 3 on; when it rejects a payload it raises 'Audio codec is
\* not Vorbis!' and pushes nothing.
C20_VorbisSplit ==
    (/\ probe.fn = "codecPrivate" /\ probe.done
     /\ probe.input.variant = "vorbis") =>
        IF VorbisAccepts(probe.input.payload)
        THEN /\ probe.out.err = "none"
             /\ PacketLengths(probe.out.s.out) =
                    <<probe.input.payload[2], probe.input.payload[3],
                      Len(probe.input.payload) - 3 - probe.input.payload[2]
                          - probe.input.payload[3]>>
             /\ Flatten(probe.out.s.out) =
                    SubSeq(probe.input.payload, 4, Len(probe.input.payload))
        ELSE /\ probe.out.err = "Audio codec is not Vorbis!"
             /\ probe.out.s.out = <<>>

\* C21, the log: before the head every segment is classified by the head
\* signature alone ('head' when it begins with 'OpusHead', else 'unknownSegment',
\* never pushed); 'head' is emitted at most once; while the instance is open the
\* recorded head and the pinned id are those of that one event.
C21_HeadOnce ==
    /\ Cardinality({i \in DOMAIN oggLog : oggLog[i].type = "head"}) <= 1
    /\ \A i \in DOMAIN oggLog :
        (HeadIndex(oggLog) = 0 \/ i <= HeadIndex(oggLog)) =>
            oggLog[i].type = (IF IsPrefix(OPUS_HEAD, oggLog[i].data)
                              THEN "head" ELSE "unknownSegment")
    /\ oggPhase = "open" =>
        IF HeadIndex(oggLog) = 0
        THEN ogg._head = None /\ ogg._bitstream = None
        ELSE /\ ogg._head = Some(oggLog[HeadIndex(oggLog)].data)
             /\ ogg._bitstream = Some(oggLog[HeadIndex(oggLog)].bitstream)

\* C21, the calls: a _transform call never changes a pinned id or a recorded head
C21_PinKept ==
    (ogg._bitstream # None /\ oggPhase' = "open") =>
        ogg'._bitstream = ogg._bitstream /\ ogg'._head = ogg._head

\* C21: while no head is recorded, a segment beginning with 'OpusHead' is
\* recorded as the head, pins the bitstream id of its page and emits one 'head'
\* event, and every other segment emits 'unknownSegment' and is not pushed;
\* 'head' is emitted at most once between construction and teardown and the
\* pinned id never changes once set, a later 'OpusHead' segment included.
C21_HeadPinnedOnce == []C21_HeadOnce /\ [][C21_PinKept]_vars

\* an unknown segment, then the head of bitstream 1, then an 'OpusHead' segment
\* of bitstream 2 that left the pin alone
C21_Witness ==
    /\ oggPhase = "open" /\ oggErr = "none"
    /\ Len(oggLog) = 3
    /\ oggLog[1].type = "unknownSegment"
    /\ oggLog[2].type = "head" /\ oggLog[2].bitstream = 1
    /\ IsPrefix(OPUS_HEAD, oggLog[3].data) /\ oggLog[3].bitstream = 2
    /\ ogg._bitstream = Some(1)

\* C22, a page with segment count 0: when the bytes received end with the page,
\* nothing is left in the remainder, the page is 27 bytes long and the log is
\* the log of the pages before it
C22_EmptyPage ==
    \A k \in DOMAIN oggPlan :
        (/\ oggPhase = "open" /\ oggErr = "none"
         /\ OggPageLib[oggPlan[k]][27] = 0
         /\ oggFed = PageStart(oggPlan, k + 1)) =>
            /\ PageStart(oggPlan, k + 1) = PageStart(oggPlan, k) + 27
            /\ ogg._remainder = Some(<<>>)
            /\ oggLog = OggOneShot(SubSeq(oggInput, 1, PageStart(oggPlan, k))).log

\* C22, a segment of length 0: it is classified like any other segment
C22_EmptySegment ==
    \A i \in DOMAIN oggLog :
        oggLog[i].data = <<>> =>
            oggLog[i].type =
                (IF HeadIndex(oggLog) = 0 \/ i < HeadIndex(oggLog) THEN "unknownSegment"
                 ELSE IF oggLog[i].bitstream = oggLog[HeadIndex(oggLog)].bitstream
                 THEN "push" ELSE "drop")

\* C22, no segment is lost: a stream of pages whose tables hold no 255, wholly
\* received, leaves one log entry per table entry
C22_EverySegment ==
    (/\ oggPhase = "open" /\ oggErr = "none" /\ oggFed = Len(oggInput)
     /\ \A k \in DOMAIN oggPlan : oggPlan[k] \in 1..7) =>
        Len(oggLog) = SumSeq([k \in DOMAIN oggPlan |-> OggPageLib[oggPlan[k]][27]])

\* C22: a complete page with segment count 0 is consumed (the cursor advances by
\* exactly 27 bytes) without a push or an event, and a segment of length 0 is
\* classified like any other: 'unknownSegment' before the head, pushed as an
\* empty packet after it when the page's bitstream id is the pinned one.
C22_ZeroSegments == C22_EmptyPage /\ C22_EmptySegment /\ C22_EverySegment

\* byte by byte: the head, a page without segments, then segments of lengths 2,
\* 0 and 1 of the pinned bitstream, all three pushed
C22_Witness ==
    /\ oggPhase = "open" /\ oggErr = "none" /\ oggBytewise
    /\ oggPlan = <<1, 7, 4>> /\ oggFed = Len(oggInput)
    /\ Len(oggLog) = 4
    /\ oggLog[3].type = "push" /\ oggLog[3].data = <<>>
    /\ ogg._remainder = Some(<<>>)

\* number of bytes of the ID and the size field of an element of the stream
C23_HeaderLength(bytes) == ReadTagDataSize(bytes, ReadEBMLId(bytes, 0).offset).offset

\* the absolute offset one past the last byte the remainder holds
C23_BufferedUpTo == webm._count + (IF webm._remainder = None THEN 0 ELSE Len(webm._remainder[1]))

\* C23: the body of an unknown element is never buffered: after a _transform
\* call that leaves a skip target pending, the remainder holds no byte of the
\* body of the element being skipped (the bytes of its ID and size field are not
\* even counted here).
C23_NoUnknownBody ==
    (/\ webmPhase = "open" /\ webmErr = "none" /\ webm._skipUntil # None
     /\ LastSkip(webmTrace) > 0
     /\ AtomAt(PlanAtoms(webmPlan), webmTrace[LastSkip(webmTrace)].at) # 0) =>
        C23_BufferedUpTo <=
            webmTrace[LastSkip(webmTrace)].at
                + C23_HeaderLength(PlanAtoms(webmPlan)[AtomAt(PlanAtoms(webmPlan),
                                        webmTrace[LastSkip(webmTrace)].at)].bytes)

\* C24, Ogg: a leading segment without the head signature is reported as
\* 'unknownSegment'; an error comes from a page header only; after such
\* segments every later segment of the stream is still read
C24_OggUnknown ==
    /\ \A i \in DOMAIN oggLog :
        ((HeadIndex(oggLog) = 0 \/ i < HeadIndex(oggLog))
            /\ ~IsPrefix(OPUS_HEAD, oggLog[i].data)) => oggLog[i].type = "unknownSegment"
    /\ oggErr # "none" => \E k \in DOMAIN oggPlan : ~PageHeaderOk(OggPageLib[oggPlan[k]])
    /\ (/\ oggPhase = "open" /\ oggErr = "none" /\ oggFed = Len(oggInput)
        /\ \A k \in DOMAIN oggPlan : oggPlan[k] \in 1..7) =>
            Len(oggLog) = SumSeq([k \in DOMAIN oggPlan |-> OggPageLib[oggPlan[k]][27]])

\* the entries of the trace made for elements with an unknown ID
C24_UnknownTags == {i \in DOMAIN webmTrace : webmTrace[i].act \in {"skip", "skipUntil"}}

\* C24, EBML: an element with an unknown ID raises no error (an error comes
\* from the root check or from the handler of a known leaf) and the elements
\* after it are still read
C24_WebmContinues ==
    /\ webmErr # "none" =>
        \/ webmErr = RootError /\ ~webm._ebmlFound
        \/ /\ webmTrace # <<>>
           /\ webmTrace[Len(webmTrace)].act = "throw"
           /\ webmTrace[Len(webmTrace)].id \in {ID_SIMPLE_BLOCK, ID_CODEC_PRIVATE}
    /\ (webmPhase = "open" /\ webmErr = "none" /\ webmFed = Len(webmInput)) =>
        \A k \in DOMAIN PlanAtoms(webmPlan) :
            \E i \in DOMAIN webmTrace : webmTrace[i].at = AtomStart(PlanAtoms(webmPlan), k)

\* C24, EBML: each element with an unknown ID is reported by a notice
C24_WebmNotice == Len(WebmEvents(webmTrace)) = Cardinality(C24_UnknownTags)

\* C24: an unknown EBML tag ID (after the root tag) and an Ogg leading segment
\* without the head signature never raise an error and never stop the parsing
\* of what follows, and each is reported to the consumer as a notice (an
\* unknown-tag notice for EBML, 'unknownSegment' for Ogg).
C24_UnknownReported == C24_OggUnknown /\ C24_WebmContinues /\ C24_WebmNotice

\* the number of bytes instance w buffers
C25_Buffered(w) == IF w._remainder = None THEN 0 ELSE Len(w._remainder[1])

\* C25, a stream delivered in chunks: after every call that returned normally
\* the bytes counted and the bytes buffered are the bytes received, and a
\* pending skip target lies at or after the first buffered byte
C25_Calls ==
    (webmPhase = "open" /\ webmErr = "none") =>
        /\ webm._length = webmFed
        /\ webm._count + C25_Buffered(webm) = webm._length
        /\ webm._skipUntil # None => webm._skipUntil[1] >= webm._count

\* C25, a stream delivered in one call to a new instance
C25_OneCall ==
    (probe.fn = "transform" /\ probe.done /\ probe.out.err = "none") =>
        /\ probe.out.s.w._length = Len(probe.input)
        /\ probe.out.s.w._count + C25_Buffered(probe.out.s.w) = probe.out.s.w._length
        /\ probe.out.s.w._skipUntil # None =>
              probe.out.s.w._skipUntil[1] >= probe.out.s.w._count

\* C25: after every _transform call that returns normally, the consumed-byte
\* count plus the length of the remainder equals the number of bytes received
\* (_count + |_remainder| = _length), so that a pending skip target minus _count
\* is a valid offset into the next buffered chunk.
C25_ByteAccounting == C25_Calls /\ C25_OneCall

\* the stream is written to a VolumeTransformer whose volume is not 1
C26_Scaling == volPhase = "open" /\ vol.volume.num # vol.volume.den

\* the number of bytes pushed so far
C26_PushedBytes == Len(Flatten(volOut))

\* C26: with a volume other than 1, for any split of the PCM input into chunks,
\* only bytes of complete transformed samples are pushed: the bytes pushed are
\* the transformed whole samples of the bytes written, never more bytes than
\* were written, and the bytes of an incomplete sample are held back in `chunk`
\* until the sample is complete.
C26_WholeSamplesOnly ==
    C26_Scaling =>
        /\ C26_PushedBytes <= volFed
        /\ C26_PushedBytes = (volFed \div VolBytes(vol.type)) * VolBytes(vol.type)
        /\ Flatten(volOut) = VolLoop(vol, volInput, 0, C26_PushedBytes)
        /\ vol.chunk = Some(SubSeq(volInput, C26_PushedBytes + 1, volFed))

\* the position in the list of the first candidate that works, 0 when none does
C27_FirstWorking(works) ==
    IF \E k \in DOMAIN FFSources : FFSources[k] \in works
    THEN CHOOSE k \in DOMAIN FFSources :
            FFSources[k] \in works /\ \A j \in 1..(k - 1) : FFSources[j] \notin works
    ELSE 0

C27_Search(works, out) ==
    IF C27_FirstWorking(works) = 0
    THEN out.kind = "throw" /\ out.ran = FFSources
    ELSE /\ out.kind = "return"
         /\ out.command = Some(FFSources[C27_FirstWorking(works)])
         /\ out.ran = SubSeq(FFSources, 1, C27_FirstWorking(works))

\* C27: with no cached command, or with force, getInfo tries the candidates in
\* order (ffmpeg-static, ffmpeg, avconv, ./ffmpeg, ./avconv), returns the
\* information of the first that runs without error and throws 'FFmpeg/avconv
\* not found!' only when every candidate has failed; with a cached command and
\* no force it returns the cached information without running a candidate.
C27_GetInfo ==
    (probe.fn = "getInfo" /\ probe.done) =>
        IF probe.input.cache # None /\ ~probe.input.force
        THEN /\ probe.out.kind = "return"
             /\ probe.out.command = probe.input.cache
             /\ probe.out.ran = <<>>
        ELSE C27_Search(probe.input.works, probe.out)

\* C28: for every value 0..255 of the first byte of a variable-length field,
\* vintLength returns either TOO_SHORT or a length L with 1 <= L <= 8, where
\* L - 1 is the number of leading zero bits of that byte.
C28_VintLength ==
    (probe.fn = "vintLength" /\ probe.done) =>
        \/ probe.out.short
        \/ /\ probe.out.v \in 1..8
           /\ probe.out.v - 1 = LeadingZeros(probe.input.buffer[1])

====
